---- MODULE Spec2Model ----
(***************************************************************************)
(* Live voice conversation (src/App.tsx, audio utilities in                *)
(* src/unnamed/part_000): microphone capture -> PCM16 frames -> transport, *)
(* and inbound PCM16 chunks -> gapless scheduled playback with barge-in    *)
(* cancellation and a turn-end cue.                                        *)
(*                                                                         *)
(* Time is counted in output frames: one unit is 1/24000 s, so the         *)
(* duration of a decoded 24 kHz buffer is its frame count, 0.1 s is 2400   *)
(* units and 0.5 s is 12000 units.                                         *)
(*                                                                         *)
(* React state read inside a callback is the value of the render that      *)
(* created the callback.  The callbacks of a live session (onopen,         *)
(* onmessage, onclose, onerror, onaudioprocess) are created inside         *)
(* connectToGemini, so each session carries the isMicOn and                *)
(* connectionState of the render in which connectToGemini was called.      *)
(***************************************************************************)
EXTENDS Integers, Sequences, FiniteSets, TLC

\* ---------------------------------------------------------------- bounds
MaxSessions == 2
MaxUnits == 3
MaxTicks == 1
MaxFrames == 2
MaxBlock == 2
MaxBytes == 4
MaxInterleaved == 6
MaxChannels == 2
MaxVideo == 3
MaxWait == 2

\* ------------------------------------------------------ program constants
AUDIO_INPUT_SAMPLE_RATE == 16000
AUDIO_OUTPUT_SAMPLE_RATE == 24000

\* model time units per second (one unit = one output frame)
TicksPerSecond == AUDIO_OUTPUT_SAMPLE_RATE
\* granularity at which the device clock is observed to advance (100 ms)
ClockStep == TicksPerSecond \div 10
\* the wall clock is observed every 3 seconds
WallStep == 3
\* cueTime = max(...) + 0.1
CueDelay == TicksPerSecond \div 10
\* osc.stop(startTime + 0.5); nextStartTimeRef = cueTime + 0.5
CueLength == TicksPerSecond \div 2

VARIABLES
    now,                    \* outputAudioContextRef.current.currentTime
    suspended,              \* output context suspended (clock frozen)
    outputAudioContextRef,  \* TRUE once initAudioContexts created the contexts
    nextStartTimeRef,       \* the playback cursor
    scheduledSourcesRef,    \* the live set: ids of tracked buffer sources
    srcs,                   \* every source node handed to the output device
    connectionState,        \* React state
    isMicOn,                \* React state (the user's mic flag)
    sess,                   \* the live sessions created so far
    audioStreamRef,         \* 0 = null, else the session whose stream it holds
    processorRef,           \* 0 = null, else the session whose processor it holds
    tap,                    \* sessions whose script processor is connected
    micLive,                \* sessions whose microphone tracks are running
    outbox,                 \* frames handed to sessionPromise.then(send)
    pending,                \* the parts of the current message still to handle
    cancelNow,              \* device time of the last stopAllAudio while nothing
                            \* was scheduled since, else -1
    prevEnd,                \* end of the buffer of the last schedule() while no
                            \* cue or stopAllAudio came since, else -1
    run,                    \* the chunks scheduled back to back (none after
                            \* its cursor had passed) since the last cue or
                            \* stopAllAudio: start of the first, frames in all
    lastOp,                 \* the operation performed by the last step
    lastTick,               \* the capture tick that ran last
    errorMsg,               \* React state: TRUE when an error message is set
    hist,                   \* the wall clock (Date.now(), in seconds),
                            \* sessionStartTimeRef and the session history
    video,                  \* camera and screen share: the two flags, the refs,
                            \* the streams and intervals that are running and
                            \* the permission prompts that are open
    codec                   \* a block of samples or a byte sequence on its way
                            \* through the audio utilities

appVars == <<now, suspended, outputAudioContextRef, nextStartTimeRef,
             scheduledSourcesRef, srcs, connectionState, isMicOn, sess,
             audioStreamRef, processorRef, tap, micLive, outbox, pending,
             cancelNow, prevEnd, run, lastOp, lastTick, errorMsg, video,
             hist>>

vars == <<now, suspended, outputAudioContextRef, nextStartTimeRef,
          scheduledSourcesRef, srcs, connectionState, isMicOn, sess,
          audioStreamRef, processorRef, tap, micLive, outbox, pending,
          cancelNow, prevEnd, run, lastOp, lastTick, errorMsg, video,
          hist, codec>>

Max(a, b) == IF a >= b THEN a ELSE b

Sessions == 1..MaxSessions

\* ---------------------------------------------------------------- inputs
\* An inbound audio payload: whether the transport text is well-formed
\* base64, and the number of PCM bytes it decodes to.
Chunks ==
    { [ok |-> TRUE, len |-> 2400],
      [ok |-> TRUE, len |-> 4800],
      [ok |-> TRUE, len |-> 2401],
      [ok |-> TRUE, len |-> 0],
      [ok |-> FALSE, len |-> 4800] }

NoAudio == [ok |-> FALSE, len |-> -1]

\* A server message: optional audio, and the two serverContent flags.
\* submit: whether the device accepts the buffer source (createBufferSource,
\* connect and start do not throw); a payload that does not decode never
\* gets that far, so the refusal is drawn for a decodable payload only.
Messages ==
    { m \in [audio : Chunks \cup {NoAudio}, submit : BOOLEAN,
             turnComplete : BOOLEAN, interrupted : BOOLEAN] :
        /\ (m.audio = NoAudio => m.submit)
        /\ (~m.submit => m.audio = [ok |-> TRUE, len |-> 4800])
        /\ (m.audio # NoAudio \/ m.turnComplete \/ m.interrupted) }

\* ------------------------------------------------------------ decoding
Thrown == -1

\* base64ToBytes: atob throws on malformed text, otherwise one byte per
\* decoded character.  The result is the byte length, or Thrown.
base64ToBytesLength(chunk) == IF chunk.ok THEN chunk.len ELSE Thrown

\* fault of the decoder: a trailing odd byte is dropped silently
decodeAudioDataFrames_floor(byteLength) ==
    IF byteLength = Thrown THEN Thrown
    ELSE IF byteLength \div 2 = 0 THEN Thrown
    ELSE byteLength \div 2

\* decodeAudioData with the defaults (24 kHz, 1 channel): new Int16Array
\* over the byte buffer throws a RangeError when the byte length is odd;
\* frameCount = dataInt16.length / numChannels; createBuffer throws a
\* NotSupportedError for a length of zero.  The result is the frame count of
\* the AudioBuffer, or Thrown.
decodeAudioDataFrames(byteLength) ==
    IF byteLength = Thrown THEN Thrown
    ELSE IF byteLength % 2 # 0 THEN Thrown
    ELSE IF byteLength \div 2 = 0 THEN Thrown
    ELSE byteLength \div 2

BufferDuration_bytes(frameCount) ==
    (2 * frameCount * TicksPerSecond) \div AUDIO_OUTPUT_SAMPLE_RATE

\* audioBuffer.duration = frameCount / sampleRate, in model time units
BufferDuration(frameCount) ==
    (frameCount * TicksPerSecond) \div AUDIO_OUTPUT_SAMPLE_RATE

\* ------------------------------------------------------ audio utilities
\* A float sample x is carried as the integer x * 32768 (the samples drawn
\* are multiples of 1/32768, which Float32 holds exactly), a byte as
\* 0..255, a base64 character as its 6-bit value, and '=' as Pad.
Scale == 32768

Min(a, b) == IF a <= b THEN a ELSE b

\* the result of a call that may throw
Returned(v) == [thrown |-> FALSE, v |-> v]

Threw == [thrown |-> TRUE, v |-> <<>>]

\* fault of the clamp: the sample is scaled as it comes
ClampSample_none(x) == x

\* Math.max(-1, Math.min(1, data[i]))
ClampSample(x) == Max(-Scale, Min(Scale, x))

\* the store of a number into an Int16Array element: ToInt16 truncates and
\* wraps modulo 2^16
ToInt16(v) == ((v + 32768) % 65536) - 32768

\* fault of the byte order: the high byte comes first
Int16Bytes_bigEndian(v) ==
    LET u == v % 65536 IN <<u \div 256, u % 256>>

\* new Uint8Array(int16.buffer): the two bytes of an element, low byte
\* first (the typed arrays use the byte order of the platform, which is
\* little-endian on every platform that runs a browser)
Int16Bytes(v) ==
    LET u == v % 65536 IN <<u % 256, u \div 256>>

\* createAudioBlob, the loop: int16[i] = sample * 32768, and the bytes of
\* the buffer
RECURSIVE Int16Buffer(_)
Int16Buffer(data) ==
    IF data = <<>> THEN <<>>
    ELSE Int16Bytes(ToInt16(ClampSample(Head(data))))
            \o Int16Buffer(Tail(data))

Pad == 64

\* btoa: three bytes give four characters; a last group of one or two
\* bytes is padded with '='
RECURSIVE btoa(_)
btoa(b) ==
    IF Len(b) = 0 THEN <<>>
    ELSE IF Len(b) = 1 THEN
        <<b[1] \div 4, (b[1] % 4) * 16, Pad, Pad>>
    ELSE IF Len(b) = 2 THEN
        <<b[1] \div 4, (b[1] % 4) * 16 + b[2] \div 16, (b[2] % 16) * 4, Pad>>
    ELSE
        <<b[1] \div 4, (b[1] % 4) * 16 + b[2] \div 16,
          (b[2] % 16) * 4 + b[3] \div 64, b[3] % 64>>
            \o btoa(SubSeq(b, 4, Len(b)))

\* the bytes of a run of base64 characters; the bits left over in a last
\* group of two or three characters are discarded
RECURSIVE Sextets(_)
Sextets(t) ==
    IF Len(t) < 2 THEN <<>>
    ELSE IF Len(t) = 2 THEN <<t[1] * 4 + t[2] \div 16>>
    ELSE IF Len(t) = 3 THEN
        <<t[1] * 4 + t[2] \div 16, (t[2] % 16) * 16 + t[3] \div 4>>
    ELSE
        <<t[1] * 4 + t[2] \div 16, (t[2] % 16) * 16 + t[3] \div 4,
          (t[3] % 4) * 64 + t[4]>>
            \o Sextets(SubSeq(t, 5, Len(t)))

\* fault of the decoder: the padding is not removed and decodes as data
atob_keepPadding(t) == Returned(Sextets([i \in 1..Len(t) |-> t[i] % 64]))

\* atob (forgiving-base64 decode): one or two '=' are removed from the end
\* of a text whose length is a multiple of 4; a length of 1 modulo 4 or a
\* remaining '=' throws InvalidCharacterError
atob(t) ==
    LET n == Len(t)
        cut == IF n > 0 /\ n % 4 = 0 /\ t[n] = Pad
               THEN (IF t[n - 1] = Pad THEN 2 ELSE 1)
               ELSE 0
        data == SubSeq(t, 1, n - cut)
    IN IF Len(data) % 4 = 1 \/ \E i \in 1..Len(data) : data[i] = Pad
       THEN Threw
       ELSE Returned(Sextets(data))

\* bytesToBase64: binary += String.fromCharCode(bytes[i]) gives one
\* character of code bytes[i] per byte; btoa(binary)
bytesToBase64(bytes) == btoa(bytes)

\* base64ToBytes: atob(base64), then bytes[i] = binaryString.charCodeAt(i)
base64ToBytes(base64) == atob(base64)

\* createAudioBlob: { data, mimeType: `audio/pcm;rate=16000` }
createAudioBlob(data) ==
    [data |-> bytesToBase64(Int16Buffer(data)),
     mimeType |-> [type |-> "audio/pcm", rate |-> AUDIO_INPUT_SAMPLE_RATE]]

\* dataInt16[i]: the element read from two bytes, low byte first
Int16At(data, i) ==
    LET u == data[2 * i - 1] + 256 * data[2 * i]
    IN IF u >= 32768 THEN u - 65536 ELSE u

\* ctx.createBuffer(numChannels, length, sampleRate): the length argument is
\* an unsigned long, so the conversion drops the fraction of frameCount =
\* dataInt16.length / numChannels; a length of zero throws a
\* NotSupportedError.  The result is the length of the buffer, or Thrown.
createBuffer(int16Length, numChannels) ==
    IF int16Length \div numChannels = 0 THEN Thrown
    ELSE int16Length \div numChannels

\* decodeAudioData: new Int16Array over an odd number of bytes throws a
\* RangeError; channelData[i] = dataInt16[i * numChannels + channel] /
\* 32768.0 (carried as the numerator) for the frames the buffer has (a
\* store past the end of channelData is ignored).  The result is the
\* sequence of the channels' data.
decodeAudioData(data, numChannels) ==
    IF Len(data) % 2 # 0 THEN Threw
    ELSE IF createBuffer(Len(data) \div 2, numChannels) = Thrown THEN Threw
    ELSE Returned([channel \in 1..numChannels |->
                      [i \in 1..createBuffer(Len(data) \div 2, numChannels) |->
                          Int16At(data, (i - 1) * numChannels + channel)]])

\* the data of the only channel, for a call with the defaults
MonoData(buffer) == IF buffer.thrown THEN Threw ELSE Returned(buffer.v[1])

\* the blocks of samples and the byte sequences drawn: the end points and
\* the neighbourhood of +-1.0, 0.5, 0, and samples out of range
Samples == {-2 * Scale, -Scale - 1, -Scale, -Scale + 1, -Scale \div 2, -1,
            0, 1, Scale \div 2, Scale - 1, Scale, Scale + 1, 2 * Scale}

Bytes == {0, 1, 127, 128, 255}

SeqsUpTo(S, n) == UNION {[1..k -> S] : k \in 0..n}

NoCodec == [stage |-> "none", samples |-> <<>>, bytes |-> <<>>,
            text |-> <<>>, rate |-> 0, back |-> Returned(<<>>),
            floats |-> Returned(<<>>), numChannels |-> 1,
            buffer |-> Returned(<<>>)]

\* ----------------------------------------------------------- scheduler
NoRun == [start |-> -1, frames |-> 0, n |-> 0]

\* The scheduler's part of the state, passed through the steps.
Sched == [cursor |-> nextStartTimeRef, live |-> scheduledSourcesRef,
          srcs |-> srcs, cancelNow |-> cancelNow, prevEnd |-> prevEnd,
          run |-> run]

\* faults of the start-time computation: the device time is ignored; the
\* earlier of the two is taken; the cursor is ignored
StartTime_cursorOnly(t, cursor) == cursor

StartTime_min(t, cursor) == IF t <= cursor THEN t ELSE cursor

StartTime_nowOnly(t, cursor) == t

\* const startTime = Math.max(now, nextStartTimeRef.current)
StartTime(t, cursor) == Max(t, cursor)

\* faults of the cursor update: one frame of silence is left after each
\* buffer; the cursor is left at the start of the buffer
NextCursor_gap(startTime, duration) == startTime + duration + 1

NextCursor_stay(startTime, duration) == startTime

\* nextStartTimeRef.current = startTime + audioBuffer.duration
NextCursor(startTime, duration) == startTime + duration

\* scheduledSourcesRef.current.add(source)
AddSource(live, id) == live \cup {id}

\* fault of the scheduling: the cursor is advanced as soon as the chunk
\* has decoded, the source is never started
playAudioChunk_cursorFirst(S, chunk, submit, t) ==
    LET frames == decodeAudioDataFrames(base64ToBytesLength(chunk)) IN
    IF frames = Thrown THEN S
    ELSE [S EXCEPT !.cursor = NextCursor(StartTime(t, S.cursor),
                                         BufferDuration(frames))]

\* playAudioChunk: decode, start the source at startTime, advance the cursor,
\* add the source to the live set.  Any exception before the cursor update
\* is caught and leaves the state as it was.
playAudioChunk(S, chunk, submit, t) ==
    LET frames == decodeAudioDataFrames(base64ToBytesLength(chunk)) IN
    IF frames = Thrown \/ ~submit THEN S
    ELSE
      LET duration == BufferDuration(frames)
          startTime == StartTime(t, S.cursor)
          id == Len(S.srcs) + 1
          unit == [kind |-> "speech", start |-> startTime, dur |-> duration,
                   stopped |-> FALSE, cb |-> FALSE]
      IN [cursor |-> NextCursor(startTime, duration),
          live |-> AddSource(S.live, id),
          srcs |-> Append(S.srcs, unit),
          cancelNow |-> -1,
          prevEnd |-> startTime + duration,
          run |-> IF S.prevEnd # -1 /\ t <= S.cursor
                  THEN [S.run EXCEPT !.frames = @ + frames, !.n = @ + 1]
                  ELSE [start |-> startTime, frames |-> frames, n |-> 1]]

\* Turn Complete Logic: cueTime = max(currentTime, cursor) + 0.1;
\* playTurnEndCue starts an oscillator at cueTime and stops it at
\* cueTime + 0.5 (it is not added to the live set); cursor = cueTime + 0.5.
\* fault of the cue: it starts at the cursor, with no 0.1 s of silence
CueTime_noDelay(t, cursor) == Max(t, cursor)

CueTime(t, cursor) == Max(t, cursor) + CueDelay

turnComplete(S, t, ctx) ==
    IF ~ctx THEN S
    ELSE
      LET cueTime == CueTime(t, S.cursor)
          unit == [kind |-> "cue", start |-> cueTime, dur |-> CueLength,
                   stopped |-> FALSE, cb |-> FALSE]
      IN [cursor |-> cueTime + CueLength,
          live |-> S.live,
          srcs |-> Append(S.srcs, unit),
          cancelNow |-> -1,
          prevEnd |-> -1,
          run |-> NoRun]

\* fault of the cancellation: the oldest live source is left playing
StopSources_skipOldest(ss, ids) ==
    [u \in DOMAIN ss |->
        IF u \in ids /\ \E v \in ids : v < u
        THEN [ss[u] EXCEPT !.stopped = TRUE] ELSE ss[u]]

\* stopAllAudio: stop() every source of the live set, clear the set, and
\* (when the output context exists) set the cursor to currentTime.
StopSources(ss, ids) ==
    [u \in DOMAIN ss |->
        IF u \in ids THEN [ss[u] EXCEPT !.stopped = TRUE] ELSE ss[u]]

\* faults of the cursor reset: the cursor is rewound to the time origin;
\* the cursor is pushed one frame past the later of device time and cursor;
\* the cursor is left where it was
ResetCursor_zero(t, cursor, ctx) == IF ctx THEN 0 ELSE cursor

ResetCursor_push(t, cursor, ctx) == IF ctx THEN Max(t, cursor) + 1 ELSE cursor

ResetCursor_keep(t, cursor, ctx) == cursor

ResetCursor(t, cursor, ctx) == IF ctx THEN t ELSE cursor

\* fault of the cancellation: the stopped sources stay in the live set
ClearSources_keep(live) == live

\* scheduledSourcesRef.current.clear()
ClearSources(live) == {}

stopAllAudio(S, t, ctx) ==
    [cursor |-> ResetCursor(t, S.cursor, ctx),
     live |-> ClearSources(S.live),
     srcs |-> StopSources(S.srcs, S.live),
     cancelNow |-> t,
     prevEnd |-> -1,
     run |-> NoRun]

SetSched(S) ==
    /\ nextStartTimeRef' = S.cursor
    /\ scheduledSourcesRef' = S.live
    /\ srcs' = S.srcs
    /\ cancelNow' = S.cancelNow
    /\ prevEnd' = S.prevEnd
    /\ run' = S.run

\* ---------------------------------------------------------------- video
\* Streams are numbered in the order they are granted, and the
\* frame-sampling interval of a stream carries its number; 0 is null.
\* live: the streams whose tracks run; intervals: the intervals not
\* cleared; screens: the screen streams (their track has the onended
\* handler); camera, screen: the prompts of getUserMedia({video}) and
\* getDisplayMedia that are open; made: the prompts opened so far;
\* streams: the streams granted so far.
NoVideo == [isCameraOn |-> FALSE, isScreenShareOn |-> FALSE,
            videoStreamRef |-> 0, videoIntervalRef |-> 0,
            live |-> {}, intervals |-> {}, screens |-> {},
            camera |-> 0, screen |-> 0, made |-> 0, streams |-> 0]

\* clearInterval(videoIntervalRef.current)
ClearInterval(intervals, id) == intervals \ {id}

\* stopVideoInput: clear the interval, stop the tracks of the stream, null
\* both refs
stopVideoInput(V) ==
    [V EXCEPT !.intervals = ClearInterval(@, V.videoIntervalRef),
              !.videoIntervalRef = 0,
              !.live = @ \ {V.videoStreamRef},
              !.videoStreamRef = 0]

\* startVideoInput(stream): stopVideoInput, videoStreamRef = stream, and a
\* new interval
startVideoInput(V, stream) ==
    [stopVideoInput(V) EXCEPT !.videoStreamRef = stream,
                              !.videoIntervalRef = stream,
                              !.intervals = @ \cup {stream}]

\* handleDisconnect: stopVideoInput(); setIsCameraOn(false);
\* setIsScreenShareOn(false)
VideoOff(V) ==
    [stopVideoInput(V) EXCEPT !.isCameraOn = FALSE, !.isScreenShareOn = FALSE]

\* ---------------------------------------------------------------- state
\* st: how far connectToGemini and the session have come; isMicOn: the flag
\* captured by the callbacks; promise: the state of sessionPromise; thens:
\* the frames of the reactions registered on the pending promise, in the
\* order of the then() calls; sent: the frames handed to
\* session.sendRealtimeInput, in the order of the calls.
\* render: the connection state and the history list of the render whose
\* connectToGemini made the session (its callbacks call that render's
\* handleDisconnect and saveSession); openedAt: the wall clock at onopen,
\* while the session is open.
NoSession == [st |-> "none", isMicOn |-> TRUE, promise |-> "pending",
              thens |-> <<>>, sent |-> <<>>,
              render |-> [connectionState |-> "DISCONNECTED",
                          sessions |-> <<>>],
              openedAt |-> 0]

\* the wall clock starts after the epoch; sessionStartTimeRef = 0 is "no
\* session running"; sessions is the React state, newest record first
NoHistory == [wall |-> 1, sessionStartTimeRef |-> 0, sessions |-> <<>>]

\* the state that the handlers of the current render see
Render == [connectionState |-> connectionState, sessions |-> hist.sessions]

\* if (duration < 5) return
MinDuration == 5

\* saveSession of a render: nothing without a start time or for less than 5
\* seconds, else setSessions([newRecord, ...sessions]) with the sessions
\* of that render.  The result is the new React state.
saveSession(H, render) ==
    IF H.sessionStartTimeRef = 0 THEN H.sessions
    ELSE IF H.wall - H.sessionStartTimeRef < MinDuration THEN H.sessions
    ELSE <<[timestamp |-> H.wall,
            durationSeconds |-> H.wall - H.sessionStartTimeRef]>>
         \o render.sessions


NoPending == [turn |-> FALSE, intr |-> FALSE]

\* no message handler is in progress
Idle == pending = NoPending

InitApp ==
    /\ now = 0
    /\ suspended = FALSE
    /\ outputAudioContextRef = FALSE
    /\ nextStartTimeRef = 0
    /\ scheduledSourcesRef = {}
    /\ srcs = <<>>
    /\ connectionState = "DISCONNECTED"
    /\ isMicOn = TRUE
    /\ sess = [s \in Sessions |-> NoSession]
    /\ audioStreamRef = 0
    /\ processorRef = 0
    /\ tap = {}
    /\ micLive = {}
    /\ outbox = 0
    /\ pending = NoPending
    /\ cancelNow = -1
    /\ prevEnd = -1
    /\ run = NoRun
    /\ lastOp = "other"
    /\ lastTick = [tick |-> 0, mic |-> TRUE, emitted |-> FALSE,
                   first |-> FALSE, toggled |-> FALSE, sent |-> FALSE,
                   failed |-> FALSE, down |-> FALSE]
    /\ errorMsg = FALSE
    /\ video = NoVideo
    /\ hist = NoHistory

Init ==
    /\ InitApp
    /\ codec = NoCodec

\* Date.now() moves on
Wait ==
    /\ Idle
    /\ hist.wall < 1 + MaxWait * WallStep
    /\ hist' = [hist EXCEPT !.wall = @ + WallStep]
    /\ lastOp' = "other"
    /\ UNCHANGED <<now, suspended, outputAudioContextRef, nextStartTimeRef,
                   scheduledSourcesRef, srcs, connectionState, isMicOn, sess,
                   audioStreamRef, processorRef, tap, micLive, outbox,
                   pending, cancelNow, prevEnd, run, lastTick, codec,
                   errorMsg, video>>

\* ------------------------------------------------------ output device
\* The device clock advances while the output context is running.
Tick ==
    /\ Idle
    /\ outputAudioContextRef
    /\ ~suspended
    /\ now < MaxTicks * ClockStep
    /\ now' = now + ClockStep
    /\ lastOp' = "other"
    /\ UNCHANGED <<suspended, outputAudioContextRef, nextStartTimeRef,
                   scheduledSourcesRef, srcs, connectionState, isMicOn, sess,
                   audioStreamRef, processorRef, tap, micLive, outbox,
                   pending, cancelNow, prevEnd, run, lastTick, codec, hist,
                   video,
                   errorMsg>>

\* The running output context plays on to the end of the next source that
\* is scheduled or playing.
Play ==
    /\ Idle
    /\ outputAudioContextRef
    /\ ~suspended
    /\ \E u \in DOMAIN srcs :
           /\ now < srcs[u].start + srcs[u].dur
           /\ \A v \in DOMAIN srcs :
                  now < srcs[v].start + srcs[v].dur =>
                      srcs[u].start + srcs[u].dur <= srcs[v].start + srcs[v].dur
           /\ now' = srcs[u].start + srcs[u].dur
    /\ lastOp' = "other"
    /\ UNCHANGED <<suspended, outputAudioContextRef, nextStartTimeRef,
                   scheduledSourcesRef, srcs, connectionState, isMicOn, sess,
                   audioStreamRef, processorRef, tap, micLive, outbox,
                   pending, cancelNow, prevEnd, run, lastTick, codec, hist,
                   video,
                   errorMsg>>

\* A source has finished: it played to its end, or stop() was called on it.
Finished(u) == srcs[u].stopped \/ now >= srcs[u].start + srcs[u].dur

\* a source that has finished and whose onended has run is released
Gone == [kind |-> "gone", start |-> 0, dur |-> 0, stopped |-> TRUE,
         cb |-> TRUE]

\* fault of the completion callback: the whole set is cleared
DeleteSource_all(live, id) == {}

\* scheduledSourcesRef.current.delete(source)
DeleteSource(live, id) == live \ {id}

\* source.onended: scheduledSourcesRef.current.delete(source)
OnEnded(u) ==
    /\ Idle
    /\ u \in DOMAIN srcs
    /\ srcs[u].kind = "speech"
    /\ ~srcs[u].cb
    /\ Finished(u)
    /\ srcs' = [srcs EXCEPT ![u] = Gone]
    /\ scheduledSourcesRef' = DeleteSource(scheduledSourcesRef, u)
    /\ lastOp' = "other"
    /\ UNCHANGED <<now, suspended, outputAudioContextRef, nextStartTimeRef,
                   connectionState, isMicOn, sess, audioStreamRef,
                   processorRef, tap, micLive, outbox, pending, cancelNow,
                   prevEnd, run, lastTick, codec, hist, video, errorMsg>>

\* ------------------------------------------------------------ messages
\* onmessage runs its three parts in one task (it never awaits): the audio
\* part here, then TurnStep, then InterruptStep; nothing else runs until
\* the handler is through.
Created(m) ==
    (IF m.audio # NoAudio THEN 1 ELSE 0) + (IF m.turnComplete THEN 1 ELSE 0)

\* the payload decodes and the device takes it
GoodFrame(m) ==
    /\ m.audio # NoAudio
    /\ m.audio.ok
    /\ m.audio.len % 2 = 0
    /\ m.audio.len > 0
    /\ m.submit

OnMessage(s, m) ==
    /\ Idle
    /\ sess[s].st = "open"
    /\ Len(srcs) + Created(m) <= MaxUnits
    /\ SetSched(IF m.audio # NoAudio /\ outputAudioContextRef
                THEN playAudioChunk(Sched, m.audio, m.submit, now)
                ELSE Sched)
    /\ pending' = [turn |-> m.turnComplete, intr |-> m.interrupted]
    /\ lastOp' = IF m.audio = NoAudio THEN "message"
                 ELSE IF GoodFrame(m) THEN "schedule" ELSE "drop"
    /\ UNCHANGED <<now, suspended, outputAudioContextRef, connectionState,
                   isMicOn, sess, audioStreamRef, processorRef, tap, micLive,
                   outbox, lastTick, codec, hist, video, errorMsg>>

\* if (message.serverContent?.turnComplete) ...
TurnStep ==
    /\ pending.turn
    /\ SetSched(turnComplete(Sched, now, outputAudioContextRef))
    /\ pending' = [pending EXCEPT !.turn = FALSE]
    /\ lastOp' = "cue"
    /\ UNCHANGED <<now, suspended, outputAudioContextRef, connectionState,
                   isMicOn, sess, audioStreamRef, processorRef, tap, micLive,
                   outbox, lastTick, codec, hist, video, errorMsg>>

\* if (message.serverContent?.interrupted) stopAllAudio()
InterruptStep ==
    /\ ~pending.turn
    /\ pending.intr
    /\ SetSched(stopAllAudio(Sched, now, outputAudioContextRef))
    /\ pending' = NoPending
    /\ lastOp' = "cancel"
    /\ UNCHANGED <<now, suspended, outputAudioContextRef, connectionState,
                   isMicOn, sess, audioStreamRef, processorRef, tap, micLive,
                   outbox, lastTick, codec, hist, video, errorMsg>>

\* ------------------------------------------------------------- session
NextSession == Cardinality({s \in Sessions : sess[s].st # "none"}) + 1

\* lastOp of a handleDisconnect, and of one that directly follows another
Disconnects == {"disconnect", "disconnect again"}

\* the operations that run stopAllAudio
Cancels == {"cancel"} \cup Disconnects

\* handleDisconnect of a render: save the session if that render was
\* CONNECTED, release the microphone stream, disconnect the capture
\* tap, stop the video input, stopAllAudio, suspend the output context.  (The caller's conjunct
\* gives the connection state, which handleDisconnect sets to DISCONNECTED.)
handleDisconnect(render) ==
    /\ hist' = [hist EXCEPT
                   !.sessions = IF render.connectionState = "CONNECTED"
                                THEN saveSession(hist, render) ELSE @,
                   !.sessionStartTimeRef = 0]
    /\ micLive' = IF audioStreamRef # 0 THEN micLive \ {audioStreamRef}
                  ELSE micLive
    /\ audioStreamRef' = 0
    /\ tap' = IF processorRef # 0 THEN tap \ {processorRef} ELSE tap
    /\ processorRef' = 0
    /\ video' = VideoOff(video)
    /\ SetSched(stopAllAudio(Sched, now, outputAudioContextRef))
    /\ suspended' = IF outputAudioContextRef THEN TRUE ELSE suspended
    /\ lastOp' = IF lastOp \in Disconnects THEN "disconnect again"
                 ELSE "disconnect"

\* connectToGemini up to the await of getUserMedia: CONNECTING,
\* initAudioContexts.  The session's callbacks close over this render.
connectToGemini(s) ==
    /\ s = NextSession
    /\ s \in Sessions
    /\ sess' = [sess EXCEPT ![s] = [NoSession EXCEPT !.st = "acquiring",
                                                      !.isMicOn = isMicOn,
                                                      !.render = Render]]
    /\ connectionState' = "CONNECTING"
    /\ errorMsg' = FALSE
    /\ outputAudioContextRef' = TRUE

\* the start button of the DISCONNECTED screen
Connect(s) ==
    /\ Idle
    /\ connectionState = "DISCONNECTED"
    /\ connectToGemini(s)
    /\ lastOp' = "other"
    /\ UNCHANGED <<now, suspended, nextStartTimeRef, scheduledSourcesRef,
                   srcs, isMicOn, audioStreamRef, processorRef, tap, micLive,
                   outbox, pending, cancelNow, prevEnd, run, lastTick,
                   codec, hist, video>>

\* "New Live Session": handleDisconnect(); connectToGemini()
NewLiveSession(s) ==
    /\ Idle
    /\ handleDisconnect(Render)
    /\ connectToGemini(s)
    /\ UNCHANGED <<now, isMicOn, outbox, pending, lastTick, codec>>

\* getUserMedia resolved: audioStreamRef = stream; client.live.connect(...)
MicGranted(s) ==
    /\ Idle
    /\ sess[s].st = "acquiring"
    /\ sess' = [sess EXCEPT ![s].st = "connecting"]
    /\ audioStreamRef' = s
    /\ micLive' = micLive \cup {s}
    /\ lastOp' = "other"
    /\ UNCHANGED <<now, suspended, outputAudioContextRef, nextStartTimeRef,
                   scheduledSourcesRef, srcs, connectionState, isMicOn,
                   processorRef, tap, outbox, pending, cancelNow, prevEnd,
                   run, lastTick,
                   codec, hist, video, errorMsg>>

\* fault of the catch block: the failure is swallowed and the app returns
\* to the start screen
CatchState_silent == "DISCONNECTED"

\* catch (err): setConnectionState(ConnectionState.ERROR)
CatchState == "ERROR"

\* getUserMedia rejected: the await throws before audioStreamRef is set
\* and before client.live.connect; the catch block sets the message and
\* ERROR
MicDenied(s) ==
    /\ Idle
    /\ sess[s].st = "acquiring"
    /\ sess' = [sess EXCEPT ![s].st = "failed"]
    /\ connectionState' = CatchState
    /\ errorMsg' = TRUE
    /\ lastOp' = "other"
    /\ UNCHANGED <<now, suspended, outputAudioContextRef, nextStartTimeRef,
                   scheduledSourcesRef, srcs, isMicOn, audioStreamRef,
                   processorRef, tap, micLive, outbox, pending, cancelNow,
                   prevEnd, run, lastTick, codec, hist, video>>

\* "Reboot System" on the ERROR screen
Reboot ==
    /\ Idle
    /\ connectionState = "ERROR"
    /\ connectionState' = "DISCONNECTED"
    /\ lastOp' = "other"
    /\ UNCHANGED <<now, suspended, outputAudioContextRef, nextStartTimeRef,
                   scheduledSourcesRef, srcs, isMicOn, sess, audioStreamRef,
                   processorRef, tap, micLive, outbox, pending, cancelNow,
                   prevEnd, run, lastTick, codec, hist, video, errorMsg>>

\* onopen: CONNECTED, sessionStartTimeRef = Date.now(), startAudioInput
\* installs the tap; the connectionState
\* effect resumes a suspended output context when the state changed.
OnOpen(s) ==
    /\ Idle
    /\ sess[s].st = "connecting"
    /\ sess' = [sess EXCEPT ![s].st = "open", ![s].openedAt = hist.wall]
    /\ hist' = [hist EXCEPT !.sessionStartTimeRef = hist.wall]
    /\ connectionState' = "CONNECTED"
    /\ tap' = tap \cup {s}
    /\ processorRef' = s
    /\ suspended' = IF connectionState # "CONNECTED" THEN FALSE ELSE suspended
    /\ lastOp' = "other"
    /\ UNCHANGED <<now, outputAudioContextRef, nextStartTimeRef,
                   scheduledSourcesRef, srcs, isMicOn, audioStreamRef,
                   micLive, outbox, pending, cancelNow, prevEnd, run,
                   lastTick,
                   codec, video, errorMsg>>

\* onclose / onerror of a session: handleDisconnect
OnClose(s) ==
    /\ Idle
    /\ sess[s].st \in {"connecting", "open", "errored"}
    /\ sess' = [sess EXCEPT ![s].st = "closed", ![s].openedAt = 0]
    /\ connectionState' = "DISCONNECTED"
    /\ handleDisconnect(sess[s].render)
    /\ UNCHANGED <<now, outputAudioContextRef, isMicOn, outbox, pending,
                   lastTick, codec, errorMsg>>

OnError(s) ==
    /\ Idle
    /\ sess[s].st \in {"connecting", "open"}
    /\ sess' = [sess EXCEPT ![s].st = "errored", ![s].openedAt = 0]
    /\ connectionState' = "DISCONNECTED"
    /\ errorMsg' = TRUE
    /\ handleDisconnect(sess[s].render)
    /\ UNCHANGED <<now, outputAudioContextRef, isMicOn, outbox, pending,
                   lastTick, codec>>

\* the hang-up buttons of the CONNECTED screen
UserDisconnect ==
    /\ Idle
    /\ connectionState = "CONNECTED"
    /\ connectionState' = "DISCONNECTED"
    /\ handleDisconnect(Render)
    /\ UNCHANGED <<now, outputAudioContextRef, isMicOn, sess, outbox,
                   pending, lastTick, codec, errorMsg>>

\* ------------------------------------------------------------- capture
\* toggleMic: setIsMicOn(prev => !prev)
toggleMic ==
    /\ Idle
    /\ connectionState = "CONNECTED"
    /\ isMicOn' = ~isMicOn
    /\ lastTick' = [lastTick EXCEPT !.toggled = TRUE]
    /\ lastOp' = "other"
    /\ UNCHANGED <<now, suspended, outputAudioContextRef, nextStartTimeRef,
                   scheduledSourcesRef, srcs, connectionState, sess,
                   audioStreamRef, processorRef, tap, micLive, outbox,
                   pending, cancelNow, prevEnd, run, codec, hist, video,
                   errorMsg>>

\* The send of a frame: sessionPromise.then(session =>
\* session.sendRealtimeInput(...)).catch(console.error).  While the promise
\* is pending the reaction is queued; once it is fulfilled the reaction
\* runs in the microtask that follows the tick, and the send may throw; if
\* it is rejected the catch logs the reason.  The catch swallows every
\* failure.
SendOutcomes == {"queued", "sent", "rejected", "throws"}

SendOutcomesOf(s) ==
    CASE sess[s].promise = "pending" -> {"queued"}
      [] sess[s].promise = "fulfilled" -> {"sent", "throws"}
      [] sess[s].promise = "rejected" -> {"rejected"}

\* fault of the promise: the reactions run last-registered first
RunReactions_lifo(thens) ==
    [i \in 1..Len(thens) |-> thens[Len(thens) + 1 - i]]

\* the reactions of a promise run in the order of the then() calls
RunReactions(thens) == thens

\* sessionPromise settles (client.live.connect has returned a session, or
\* has failed): the queued reactions run, each sending its frame; the
\* sends go through, or throw, or the promise was rejected.
Settle(s, send) ==
    /\ Idle
    /\ sess[s].st \in {"connecting", "open", "closed", "errored"}
    /\ sess[s].promise = "pending"
    /\ send \in {"sent", "rejected", "throws"}
    /\ sess' = [sess EXCEPT
                   ![s].promise = IF send = "rejected" THEN "rejected"
                                  ELSE "fulfilled",
                   ![s].thens = <<>>,
                   ![s].sent = IF send = "sent"
                               THEN @ \o RunReactions(sess[s].thens)
                               ELSE @]
    /\ lastTick' = [lastTick EXCEPT
                       !.failed = @ \/ (send # "sent" /\ sess[s].thens # <<>>)]
    /\ lastOp' = "settle"
    /\ UNCHANGED <<now, suspended, outputAudioContextRef, nextStartTimeRef,
                   scheduledSourcesRef, srcs, connectionState, isMicOn,
                   audioStreamRef, processorRef, tap, micLive, outbox,
                   pending, cancelNow, prevEnd, run, codec, hist, video,
                   errorMsg>>

\* the capture is torn down: handleDisconnect has run and no session has
\* started capturing since
TornDown ==
    /\ connectionState = "DISCONNECTED"
    /\ processorRef = 0
    /\ audioStreamRef = 0

\* fault of the capture loop: after a failed send the handler gives up
Emits_untilFailure(s) == sess[s].isMicOn /\ ~lastTick.failed

\* processor.onaudioprocess of session s: `if (!isMicOn) return;` reads the
\* isMicOn of the render that created the callback; otherwise
\* createAudioBlob and sessionPromise.then(send).  A tick that returns at
\* the gate sends nothing, so its send outcome is of no effect.
\* lastTick.failed: the send of this or of an earlier tick has failed.
Emits(s) == sess[s].isMicOn

onaudioprocess(s, send) ==
    /\ Idle
    /\ s \in tap
    /\ outbox < MaxFrames
    /\ send \in SendOutcomesOf(s)
    /\ outbox' = IF Emits(s) THEN outbox + 1 ELSE outbox
    /\ sess' = IF ~Emits(s) \/ send \in {"rejected", "throws"} THEN sess
               ELSE IF send = "queued"
                    THEN [sess EXCEPT ![s].thens = Append(@, outbox + 1)]
                    ELSE [sess EXCEPT ![s].sent = Append(@, outbox + 1)]
    /\ lastTick' = [tick |-> s, mic |-> isMicOn, emitted |-> Emits(s),
                    first |-> lastTick.toggled, toggled |-> FALSE,
                    sent |-> Emits(s) /\ send = "sent",
                    failed |-> lastTick.failed
                               \/ (Emits(s) /\ send \in {"rejected", "throws"}),
                    down |-> TornDown]
    /\ lastOp' = "capture"
    /\ UNCHANGED <<now, suspended, outputAudioContextRef, nextStartTimeRef,
                   scheduledSourcesRef, srcs, connectionState, isMicOn,
                   audioStreamRef, processorRef, tap, micLive, pending,
                   cancelNow, prevEnd, run, codec, hist, video, errorMsg>>

\* ------------------------------------------------ camera and screen
\* toggleCamera (the button of the CONNECTED screen): off when the camera is
\* on; otherwise stop a running screen share and ask for the camera.
toggleCamera ==
    /\ Idle
    /\ connectionState = "CONNECTED"
    /\ video.isCameraOn \/ video.made < MaxVideo
    /\ video' = IF video.isCameraOn
                THEN [stopVideoInput(video) EXCEPT !.isCameraOn = FALSE]
                ELSE [(IF video.isScreenShareOn THEN stopVideoInput(video)
                       ELSE video)
                      EXCEPT !.camera = @ + 1, !.made = @ + 1]
    /\ lastOp' = "other"
    /\ UNCHANGED <<now, suspended, outputAudioContextRef, nextStartTimeRef,
                   scheduledSourcesRef, srcs, connectionState, isMicOn, sess,
                   audioStreamRef, processorRef, tap, micLive, outbox,
                   pending, cancelNow, prevEnd, run, lastTick, codec, hist,
                   errorMsg>>

\* getUserMedia({video: true}) resolved: startVideoInput(stream),
\* setIsCameraOn(true), setIsScreenShareOn(false)
CameraGranted ==
    /\ Idle
    /\ video.camera > 0
    /\ video' = [startVideoInput([video EXCEPT !.live = @ \cup
                                                {video.streams + 1}],
                                 video.streams + 1)
                 EXCEPT !.isCameraOn = TRUE, !.isScreenShareOn = FALSE,
                        !.camera = @ - 1, !.streams = @ + 1]
    /\ lastOp' = "other"
    /\ UNCHANGED <<now, suspended, outputAudioContextRef, nextStartTimeRef,
                   scheduledSourcesRef, srcs, connectionState, isMicOn, sess,
                   audioStreamRef, processorRef, tap, micLive, outbox,
                   pending, cancelNow, prevEnd, run, lastTick, codec, hist,
                   errorMsg>>

\* getUserMedia rejected: the catch shows a notification
CameraDenied ==
    /\ Idle
    /\ video.camera > 0
    /\ video' = [video EXCEPT !.camera = @ - 1]
    /\ lastOp' = "other"
    /\ UNCHANGED <<now, suspended, outputAudioContextRef, nextStartTimeRef,
                   scheduledSourcesRef, srcs, connectionState, isMicOn, sess,
                   audioStreamRef, processorRef, tap, micLive, outbox,
                   pending, cancelNow, prevEnd, run, lastTick, codec, hist,
                   errorMsg>>

\* toggleScreenShare (the header button of the CONNECTED screen, on a device
\* that supports screen sharing): off when the share is on; otherwise stop a
\* running camera and ask for the screen.
toggleScreenShare ==
    /\ Idle
    /\ connectionState = "CONNECTED"
    /\ video.isScreenShareOn \/ video.made < MaxVideo
    /\ video' = IF video.isScreenShareOn
                THEN [stopVideoInput(video) EXCEPT !.isScreenShareOn = FALSE]
                ELSE [(IF video.isCameraOn THEN stopVideoInput(video)
                       ELSE video)
                      EXCEPT !.screen = @ + 1, !.made = @ + 1]
    /\ lastOp' = "other"
    /\ UNCHANGED <<now, suspended, outputAudioContextRef, nextStartTimeRef,
                   scheduledSourcesRef, srcs, connectionState, isMicOn, sess,
                   audioStreamRef, processorRef, tap, micLive, outbox,
                   pending, cancelNow, prevEnd, run, lastTick, codec, hist,
                   errorMsg>>

\* getDisplayMedia resolved: startVideoInput(stream),
\* setIsScreenShareOn(true), setIsCameraOn(false), and the track's onended
\* handler is set
ScreenGranted ==
    /\ Idle
    /\ video.screen > 0
    /\ video' = [startVideoInput([video EXCEPT !.live = @ \cup
                                                {video.streams + 1}],
                                 video.streams + 1)
                 EXCEPT !.isScreenShareOn = TRUE, !.isCameraOn = FALSE,
                        !.screens = @ \cup {video.streams + 1},
                        !.screen = @ - 1, !.streams = @ + 1]
    /\ lastOp' = "other"
    /\ UNCHANGED <<now, suspended, outputAudioContextRef, nextStartTimeRef,
                   scheduledSourcesRef, srcs, connectionState, isMicOn, sess,
                   audioStreamRef, processorRef, tap, micLive, outbox,
                   pending, cancelNow, prevEnd, run, lastTick, codec, hist,
                   errorMsg>>

\* getDisplayMedia rejected: the catch shows a notification or nothing
ScreenDenied ==
    /\ Idle
    /\ video.screen > 0
    /\ video' = [video EXCEPT !.screen = @ - 1]
    /\ lastOp' = "other"
    /\ UNCHANGED <<now, suspended, outputAudioContextRef, nextStartTimeRef,
                   scheduledSourcesRef, srcs, connectionState, isMicOn, sess,
                   audioStreamRef, processorRef, tap, micLive, outbox,
                   pending, cancelNow, prevEnd, run, lastTick, codec, hist,
                   errorMsg>>

\* The user ends the share in the browser: the track of a running screen
\* stream ends and its onended runs stopVideoInput(),
\* setIsScreenShareOn(false).
ScreenEnded(stream) ==
    /\ Idle
    /\ stream \in video.screens \cap video.live
    /\ video' = [stopVideoInput([video EXCEPT !.live = @ \ {stream}])
                 EXCEPT !.isScreenShareOn = FALSE]
    /\ lastOp' = "other"
    /\ UNCHANGED <<now, suspended, outputAudioContextRef, nextStartTimeRef,
                   scheduledSourcesRef, srcs, connectionState, isMicOn, sess,
                   audioStreamRef, processorRef, tap, micLive, outbox,
                   pending, cancelNow, prevEnd, run, lastTick, codec, hist,
                   errorMsg>>

\* ------------------------------------------------------- specification
\* every operation of the program
Next ==
    \/ Tick
    \/ \E u \in 1..MaxUnits : OnEnded(u)
    \/ \E s \in Sessions, m \in Messages : OnMessage(s, m)
    \/ TurnStep
    \/ InterruptStep
    \/ \E s \in Sessions : Connect(s)
    \/ \E s \in Sessions : NewLiveSession(s)
    \/ \E s \in Sessions : MicGranted(s)
    \/ \E s \in Sessions : MicDenied(s)
    \/ Reboot
    \/ \E s \in Sessions : OnOpen(s)
    \/ \E s \in Sessions : OnClose(s)
    \/ \E s \in Sessions : OnError(s)
    \/ UserDisconnect
    \/ toggleMic
    \/ \E s \in Sessions, send \in SendOutcomes : Settle(s, send)
    \/ \E s \in Sessions, send \in SendOutcomes : onaudioprocess(s, send)

Spec == Init /\ [][Next]_vars

\* Playback: the capture actions (toggleMic, onaudioprocess) change only
\* isMicOn, outbox and lastTick, which no playback action reads, and every
\* way of ending a session runs handleDisconnect in the same way; the playback
\* claims are checked on conversations that are opened, receive messages
\* while the device clock runs, are hung up and opened again.
NextPlay ==
    \/ Tick
    \/ \E u \in 1..MaxUnits : OnEnded(u)
    \/ \E s \in Sessions, m \in Messages : OnMessage(s, m)
    \/ TurnStep
    \/ InterruptStep
    \/ \E s \in Sessions : Connect(s)
    \/ \E s \in Sessions : MicGranted(s)
    \/ \E s \in Sessions : OnOpen(s)
    \/ UserDisconnect

SpecPlay == Init /\ [][NextPlay]_vars

\* One conversation with all its messages (chunks, turn ends,
\* interruptions) that is not hung up.
NextTurns ==
    \/ Tick
    \/ \E u \in 1..MaxUnits : OnEnded(u)
    \/ \E s \in Sessions, m \in Messages : OnMessage(s, m)
    \/ TurnStep
    \/ InterruptStep
    \/ \E s \in Sessions : Connect(s)
    \/ \E s \in Sessions : MicGranted(s)
    \/ \E s \in Sessions : OnOpen(s)

SpecTurns == Init /\ [][NextTurns]_vars

\* A conversation in which the server only sends audio chunks.
OnChunk(s, m) ==
    /\ ~m.turnComplete
    /\ ~m.interrupted
    /\ OnMessage(s, m)

NextChunks ==
    \/ Tick
    \/ \E u \in 1..MaxUnits : OnEnded(u)
    \/ \E s \in Sessions, m \in Messages : OnChunk(s, m)
    \/ \E s \in Sessions : Connect(s)
    \/ \E s \in Sessions : MicGranted(s)
    \/ \E s \in Sessions : OnOpen(s)

SpecChunks == Init /\ [][NextChunks]_vars

\* Capture: the session life cycle, the mic flag and the capture ticks.
NextCapture ==
    \/ \E s \in Sessions : Connect(s)
    \/ \E s \in Sessions : NewLiveSession(s)
    \/ \E s \in Sessions : MicGranted(s)
    \/ \E s \in Sessions : MicDenied(s)
    \/ Reboot
    \/ \E s \in Sessions : OnOpen(s)
    \/ \E s \in Sessions : OnClose(s)
    \/ \E s \in Sessions : OnError(s)
    \/ UserDisconnect
    \/ toggleMic
    \/ \E s \in Sessions, send \in SendOutcomes : Settle(s, send)
    \/ \E s \in Sessions, send \in SendOutcomes : onaudioprocess(s, send)

SpecCapture == Init /\ [][NextCapture]_vars

\* Starts of conversations: the microphone is granted or refused, the
\* session opens, captures and is hung up; a start may be requested again
\* before the previous one is through ("New Live Session").  The frames
\* captured wait for the session promise.
NextStart ==
    \/ \E s \in Sessions : Connect(s)
    \/ \E s \in Sessions : NewLiveSession(s)
    \/ \E s \in Sessions : MicGranted(s)
    \/ \E s \in Sessions : MicDenied(s)
    \/ Reboot
    \/ \E s \in Sessions : OnOpen(s)
    \/ UserDisconnect
    \/ \E s \in Sessions, send \in SendOutcomes : onaudioprocess(s, send)

SpecStart == Init /\ [][NextStart]_vars

\* The capture loop of conversations that are opened, muted and unmuted,
\* and hung up, with sends that succeed or fail.
NextSend ==
    \/ \E s \in Sessions : Connect(s)
    \/ \E s \in Sessions : MicGranted(s)
    \/ \E s \in Sessions : OnOpen(s)
    \/ UserDisconnect
    \/ toggleMic
    \/ \E s \in Sessions, send \in SendOutcomes : Settle(s, send)
    \/ \E s \in Sessions, send \in SendOutcomes : onaudioprocess(s, send)

SpecSend == Init /\ [][NextSend]_vars

\* Conversations of decodable audio chunks that end by a socket error or
\* by a close; a socket that fails reports onerror and then onclose, so that
\* handleDisconnect runs twice in a row.  ctx.suspend() is taken to freeze
\* the clock at once: the clock is observed in steps of ClockStep, and the
\* suspension takes effect within one render quantum.
OnSpeech(s, m) ==
    /\ GoodFrame(m)
    /\ OnChunk(s, m)

NextStop ==
    \/ Tick
    \/ \E s \in Sessions, m \in Messages : OnSpeech(s, m)
    \/ \E s \in Sessions : Connect(s)
    \/ \E s \in Sessions : MicGranted(s)
    \/ \E s \in Sessions : OnOpen(s)
    \/ \E s \in Sessions : OnClose(s)
    \/ \E s \in Sessions : OnError(s)

SpecStop == Init /\ [][NextStop]_vars

\* The audio utilities, applied to a block of samples (createAudioBlob,
\* then the way back through base64ToBytes and decodeAudioData) or to a
\* byte sequence (bytesToBase64, then base64ToBytes).
InitCodec ==
    /\ InitApp
    /\ \/ \E data \in SeqsUpTo(Samples, MaxBlock) :
              codec = [NoCodec EXCEPT !.stage = "block", !.samples = data]
       \/ \E b \in SeqsUpTo(Bytes, MaxBytes) :
              codec = [NoCodec EXCEPT !.stage = "bytes", !.bytes = b]

Encode ==
    /\ codec.stage = "block"
    /\ codec' = [codec EXCEPT !.stage = "blob",
                              !.bytes = Int16Buffer(codec.samples),
                              !.text = createAudioBlob(codec.samples).data,
                              !.rate = createAudioBlob(codec.samples)
                                          .mimeType.rate]
    /\ UNCHANGED appVars

ToText ==
    /\ codec.stage = "bytes"
    /\ codec' = [codec EXCEPT !.stage = "text",
                              !.text = bytesToBase64(codec.bytes)]
    /\ UNCHANGED appVars

FromText ==
    /\ codec.stage \in {"blob", "text"}
    /\ codec' = [codec EXCEPT
                    !.stage = IF codec.stage = "blob" THEN "pcm" ELSE "back",
                    !.back = base64ToBytes(codec.text)]
    /\ UNCHANGED appVars

Decode ==
    /\ codec.stage = "pcm"
    /\ ~codec.back.thrown
    /\ codec' = [codec EXCEPT !.stage = "floats",
                              !.floats =
                                  MonoData(decodeAudioData(codec.back.v, 1))]
    /\ UNCHANGED appVars

NextCodec ==
    \/ Encode
    \/ ToText
    \/ FromText
    \/ Decode

SpecCodec == InitCodec /\ [][NextCodec]_vars

\* Sessions that follow each other, by the start button after a hang-up or
\* by "New Live Session", while the sessions started before still deliver
\* their messages, close or fail.
NextSessions ==
    \/ Tick
    \/ \E s \in Sessions, m \in Messages : OnMessage(s, m)
    \/ TurnStep
    \/ InterruptStep
    \/ \E s \in Sessions : Connect(s)
    \/ \E s \in Sessions : NewLiveSession(s)
    \/ \E s \in Sessions : MicGranted(s)
    \/ \E s \in Sessions : OnOpen(s)
    \/ \E s \in Sessions : OnClose(s)
    \/ \E s \in Sessions : OnError(s)

SpecSessions == Init /\ [][NextSessions]_vars

\* Playback to the end: the conversations of SpecPlay, with a device that
\* plays every source to its end while the output context is running and
\* delivers every onended, and message handlers that run to completion.
NextLive ==
    \/ Play
    \/ \E u \in 1..MaxUnits : OnEnded(u)
    \/ \E s \in Sessions, m \in Messages : OnMessage(s, m)
    \/ TurnStep
    \/ InterruptStep
    \/ \E s \in Sessions : Connect(s)
    \/ \E s \in Sessions : MicGranted(s)
    \/ \E s \in Sessions : OnOpen(s)
    \/ UserDisconnect

SpecLive ==
    /\ Init
    /\ [][NextLive]_vars
    /\ WF_vars(Play)
    /\ \A u \in 1..MaxUnits : WF_vars(OnEnded(u))
    /\ WF_vars(TurnStep)
    /\ WF_vars(InterruptStep)

\* Camera and screen share during sessions that are opened and hung up:
\* the two toggles, their permission prompts granted or refused in any
\* order, and a share ended from the browser.
NextVideo ==
    \/ \E s \in Sessions : Connect(s)
    \/ \E s \in Sessions : MicGranted(s)
    \/ \E s \in Sessions : OnOpen(s)
    \/ UserDisconnect
    \/ toggleCamera
    \/ CameraGranted
    \/ CameraDenied
    \/ toggleScreenShare
    \/ ScreenGranted
    \/ ScreenDenied
    \/ \E stream \in 1..MaxVideo : ScreenEnded(stream)

SpecVideo == Init /\ [][NextVideo]_vars

\* The session history: sessions that are started, last for some seconds
\* and are ended by the user, by a close or by an error.
NextHistory ==
    \/ Wait
    \/ \E s \in Sessions : Connect(s)
    \/ \E s \in Sessions : NewLiveSession(s)
    \/ \E s \in Sessions : MicGranted(s)
    \/ \E s \in Sessions : OnOpen(s)
    \/ \E s \in Sessions : OnClose(s)
    \/ \E s \in Sessions : OnError(s)
    \/ UserDisconnect

SpecHistory == Init /\ [][NextHistory]_vars

\* decodeAudioData applied to a byte sequence for one or more channels.
InitDecode ==
    /\ InitApp
    /\ \E b \in SeqsUpTo(Bytes, MaxInterleaved) :
           \E numChannels \in 1..MaxChannels :
               codec = [NoCodec EXCEPT !.stage = "interleaved", !.bytes = b,
                                       !.numChannels = numChannels]

DecodeChannels ==
    /\ codec.stage = "interleaved"
    /\ codec' = [codec EXCEPT
                    !.stage = "buffer",
                    !.buffer = decodeAudioData(codec.bytes, codec.numChannels)]
    /\ UNCHANGED appVars

NextDecode == DecodeChannels

SpecDecode == InitDecode /\ [][NextDecode]_vars

TypeOK ==
    /\ now \in Nat
    /\ nextStartTimeRef \in Nat
    /\ scheduledSourcesRef \subseteq DOMAIN srcs
    /\ Len(srcs) <= MaxUnits


\* ------------------------------------------------------------- claims
\* the source created by the step, and the sources before it
NewUnit == srcs'[Len(srcs')]

End(u) == srcs[u].start + srcs[u].dur

\* still scheduled or playing on the output device
Audible(u) == ~srcs[u].stopped /\ now < End(u)

\* C1: every schedule() of a decodable chunk creates one source that starts
\* at max(deviceNow, cursor), and leaves the cursor at start + duration.
C1_ScheduleStart ==
    [][lastOp' = "schedule" =>
          /\ Len(srcs') = Len(srcs) + 1
          /\ NewUnit.kind = "speech"
          /\ NewUnit.start = Max(now, nextStartTimeRef)
          /\ nextStartTimeRef' = NewUnit.start + NewUnit.dur]_vars

\* a chunk that arrived after the previous buffer had finished (device time
\* ahead of the cursor) has just been scheduled
C1_Witness ==
    /\ lastOp = "schedule"
    /\ Len(srcs) >= 2
    /\ srcs[Len(srcs) - 1].kind = "speech"
    /\ srcs[Len(srcs)].start > End(Len(srcs) - 1)
    /\ srcs[Len(srcs)].start = now
    /\ nextStartTimeRef = End(Len(srcs))

\* C2: in a conversation of inbound chunks arriving at arbitrary device
\* times, no two units of the live set overlap, and each schedule() starts
\* at or after the cursor left by the schedule() before it.
NoOverlap(ss, ids) ==
    \A u \in ids : \A v \in ids :
        u # v => \/ ss[u].start + ss[u].dur <= ss[v].start
                 \/ ss[v].start + ss[v].dur <= ss[u].start

C2_NoOverlap ==
    [][/\ NoOverlap(srcs', scheduledSourcesRef')
       /\ (lastOp' = "schedule" /\ prevEnd # -1 =>
              NewUnit.start >= prevEnd)]_vars

\* a burst: three units are live at once, the last one scheduled ahead
C2_Witness ==
    /\ lastOp = "schedule"
    /\ Cardinality(scheduledSourcesRef) = 3
    /\ srcs[Len(srcs)].start > now

\* C3 as stated: buffers scheduled one after another (no cancelAll or cue in
\* between) at arbitrary times start exactly where the previous one ends.
Consecutive ==
    /\ lastOp' = "schedule"
    /\ prevEnd # -1

C3_GaplessAlways ==
    [][Consecutive => NewUnit.start = prevEnd]_vars

\* C3 amended: the next buffer starts at max(deviceNow, start + duration of
\* the previous one): exactly at its end when it is submitted no later than
\* that, and at deviceNow (after a gap) when it arrives later.
C3_GaplessUnlessLate ==
    [][Consecutive =>
          /\ NewUnit.start = Max(now, prevEnd)
          /\ (now <= prevEnd => NewUnit.start = prevEnd)]_vars

\* three buffers scheduled with nothing in between: the second arrived
\* late, the third in time
C3_Witness ==
    /\ lastOp = "schedule"
    /\ scheduledSourcesRef = {1, 2, 3}
    /\ \A u \in 1..3 : srcs[u].kind = "speech" /\ ~srcs[u].stopped
    /\ srcs[2].start > End(1)
    /\ srcs[3].start = End(2)
    /\ prevEnd = End(3)

\* C4 as stated: no operation ever makes the cursor smaller.
C4_CursorMonotonic ==
    [][nextStartTimeRef' >= nextStartTimeRef]_vars

\* C4 amended: schedule() and the turn-end cue never make the cursor
\* smaller; only stopAllAudio (interruption, disconnect) does, and it sets
\* the cursor to deviceNow.
C4_CursorMonotonicExceptCancel ==
    [][/\ (lastOp' \in {"schedule", "drop", "message", "cue"} =>
              nextStartTimeRef' >= nextStartTimeRef)
       /\ (nextStartTimeRef' < nextStartTimeRef =>
              /\ lastOp' \in Cancels
              /\ nextStartTimeRef' = now)]_vars

\* an interruption has just rewound a cursor that was ahead of the device
C4_Witness ==
    /\ lastOp = "cancel"
    /\ now > 0
    /\ nextStartTimeRef = now
    /\ \E u \in DOMAIN srcs :
          srcs[u].kind = "speech" /\ srcs[u].stopped /\ End(u) > now

\* C5: every unit added to the live set starts at or after the device time
\* at which it was created.
C5_StartNotInPast ==
    [][\A u \in scheduledSourcesRef' \ scheduledSourcesRef :
          /\ u \in DOMAIN srcs'
          /\ srcs'[u].start >= now]_vars

\* a unit has just been created while the cursor, reset by a cancelAll,
\* lay in the past
C5_Witness ==
    /\ lastOp = "schedule"
    /\ Len(srcs) \in scheduledSourcesRef
    /\ srcs[Len(srcs)].start = now
    /\ now > 0
    /\ \E u \in DOMAIN srcs :
          srcs[u].kind = "speech" /\ srcs[u].stopped /\ srcs[u].start < now

\* C6: stopAllAudio stops every unit of the live set, empties the set and
\* sets the cursor to deviceNow; the next buffer starts at
\* max(deviceNow, that cursor).
C6_CancelAll ==
    [][/\ (lastOp' \in Cancels =>
              /\ \A u \in scheduledSourcesRef : srcs'[u].stopped
              /\ scheduledSourcesRef' = {}
              /\ nextStartTimeRef' = now
              /\ cancelNow' = now)
       /\ (lastOp' = "schedule" /\ cancelNow # -1 =>
              NewUnit.start = Max(now, cancelNow))]_vars

\* the first buffer after a cancelAll of two live units: it starts before
\* the end of the stopped ones, not at the old cursor
C6_Witness ==
    /\ lastOp = "schedule"
    /\ Len(srcs) = 3
    /\ \A u \in 1..2 : srcs[u].kind = "speech" /\ srcs[u].stopped
    /\ srcs[3].start = now
    /\ srcs[3].start < End(2)

\* C7: once the handler of an interruption has returned, nothing that was
\* scheduled before (speech or cue) is still scheduled or playing.
C7_InterruptSilences ==
    (Idle /\ lastOp = "cancel") => \A u \in DOMAIN srcs : ~Audible(u)

\* C8: a capture tick that runs while the user's mic flag is off emits no
\* frame.
C8_MuteGate ==
    (lastTick.tick # 0 /\ ~lastTick.mic) => ~lastTick.emitted

\* C9: the first capture tick after a toggle follows the new flag: no frame
\* after switching off, a frame after switching on.
C9_ToggleNextTick ==
    (lastTick.tick # 0 /\ lastTick.first) =>
        (lastTick.emitted <=> lastTick.mic)

\* C10: a frame that fails to decode or to be submitted changes neither the
\* cursor nor the live set nor the device's sources, so that later frames
\* are scheduled as if it had not arrived.
C10_BadFrameDropped ==
    [][lastOp' = "drop" =>
          UNCHANGED <<nextStartTimeRef, scheduledSourcesRef, srcs,
                      cancelNow, prevEnd, now, suspended>>]_vars

\* a bad frame has just been dropped while audio was scheduled ahead
C10_Witness ==
    /\ lastOp = "drop"
    /\ Idle
    /\ scheduledSourcesRef # {}
    /\ nextStartTimeRef > now

\* C11: every turn-complete event starts the cue at
\* cueStart = max(deviceNow, cursor) + 0.1 s and then sets the cursor to
\* cueStart + 0.5 s.
C11_CueTiming ==
    [][lastOp' = "cue" =>
          /\ Len(srcs') = Len(srcs) + 1
          /\ NewUnit.kind = "cue"
          /\ NewUnit.start = Max(now, nextStartTimeRef) + CueDelay
          /\ NewUnit.dur = CueLength
          /\ nextStartTimeRef' = NewUnit.start + CueLength]_vars

\* the turn ended while speech was still scheduled ahead: the cue follows
\* the end of that speech by 0.1 s
C11_Witness ==
    /\ lastOp = "cue"
    /\ Len(srcs) >= 2
    /\ srcs[Len(srcs)].kind = "cue"
    /\ srcs[Len(srcs) - 1].kind = "speech"
    /\ End(Len(srcs) - 1) > now
    /\ srcs[Len(srcs)].start = End(Len(srcs) - 1) + CueDelay
    /\ nextStartTimeRef = End(Len(srcs))

\* C12: after any sequence of audio-chunk, turn-complete and interruption
\* events, the interval of the turn-end cue intersects the interval of no
\* speech unit that is scheduled or playing on the device.
Overlap(u, v) == srcs[u].start < End(v) /\ srcs[v].start < End(u)

C12_CueNeverOverlapsSpeech ==
    \A c \in DOMAIN srcs : \A u \in DOMAIN srcs :
        (/\ srcs[c].kind = "cue"
         /\ srcs[u].kind = "speech"
         /\ ~srcs[u].stopped) => ~Overlap(c, u)

\* C13 as stated: the cursor is changed by schedule() (playAudioChunk) and
\* cancelAll() (stopAllAudio) only.
C13_CursorWriters ==
    [][nextStartTimeRef' # nextStartTimeRef =>
          lastOp' \in {"schedule"} \cup Cancels]_vars

\* C13 amended: the cursor is changed by playAudioChunk, by stopAllAudio
\* and by the turn-complete branch of onmessage (which reads it and sets it
\* to cueTime + 0.5 s), and by nothing else.
C13_CursorWritersWithCue ==
    [][nextStartTimeRef' # nextStartTimeRef =>
          lastOp' \in {"schedule", "cue"} \cup Cancels]_vars

\* the turn-complete branch has just moved the cursor of an idle scheduler
C13_Witness ==
    /\ lastOp = "cue"
    /\ Len(srcs) = 1
    /\ srcs[1].kind = "cue"
    /\ scheduledSourcesRef = {}
    /\ nextStartTimeRef = now + CueDelay + CueLength

\* C14: a failed send is caught and does not stop the capture loop: the
\* tick leaves the tap, the processor and the session as they were, and
\* every later tick that passes the mute gate still encodes its block and
\* hands it to the send.
C14_SendFailureIsolated ==
    [][lastOp' = "capture" =>
          /\ UNCHANGED <<tap, processorRef, audioStreamRef, micLive,
                         connectionState, isMicOn>>
          /\ \A s \in Sessions :
                 /\ sess'[s].st = sess[s].st
                 /\ sess'[s].isMicOn = sess[s].isMicOn
                 /\ sess'[s].promise = sess[s].promise
          /\ (lastTick.failed /\ sess[lastTick'.tick].isMicOn =>
                 lastTick'.emitted)]_vars

\* a frame has been sent by a tick that followed a failed send
C14_Witness ==
    /\ lastOp = "capture"
    /\ lastTick.failed
    /\ lastTick.emitted
    /\ lastTick.sent

C16_NoFramesWhileTornDown ==
    (lastTick.tick # 0 /\ lastTick.down) => ~lastTick.emitted

\* C17: for every sample x in [-1, 1], the sample that decodeAudioData
\* gives back for the encoding by createAudioBlob is within 1/32768 of x.
C17_Pcm16RoundTrip ==
    (codec.stage = "floats" /\ ~codec.floats.thrown) =>
        \A i \in 1..Len(codec.samples) :
            (codec.samples[i] >= -Scale /\ codec.samples[i] <= Scale) =>
                /\ i \in DOMAIN codec.floats.v
                /\ codec.floats.v[i] - codec.samples[i] \in -1..1

\* C18: for every byte sequence b, the empty one included,
\* base64ToBytes(bytesToBase64(b)) returns b.
C18_Base64RoundTrip ==
    codec.stage \in {"back", "pcm"} =>
        /\ ~codec.back.thrown
        /\ codec.back.v = codec.bytes

\* a sequence of four bytes (one full group and a padded one) has made the
\* round trip
C18_Witness ==
    /\ codec.stage = "back"
    /\ Len(codec.bytes) = 4
    /\ codec.bytes[4] = 255
    /\ codec.text[7] = Pad
    /\ codec.back.v = codec.bytes

\* C19: a sample above 1.0 encodes to the bytes of 1.0 and a sample below
\* -1.0 to the bytes of -1.0; encoding never throws.
BytesOf(i) == SubSeq(codec.bytes, 2 * i - 1, 2 * i)

C19_Clamping ==
    codec.stage = "blob" =>
        \A i \in 1..Len(codec.samples) :
            /\ (codec.samples[i] > Scale =>
                   BytesOf(i) = Int16Buffer(<<Scale>>))
            /\ (codec.samples[i] < -Scale =>
                   BytesOf(i) = Int16Buffer(<<-Scale>>))

\* the block [2.0, -2.0] has been encoded
C19_Witness ==
    /\ codec.stage = "blob"
    /\ codec.samples = <<2 * Scale, -2 * Scale>>
    /\ codec.bytes = Int16Buffer(<<Scale, -Scale>>)

\* C20: a block of n samples encodes to 2n bytes tagged with the input
\* rate 16000, each sample in order as one 16-bit little-endian value.
C20_BlockEncoding ==
    codec.stage = "blob" =>
        /\ Len(codec.bytes) = 2 * Len(codec.samples)
        /\ codec.rate = 16000
        /\ \A i \in 1..Len(codec.samples) :
              (codec.samples[i] >= -Scale /\ codec.samples[i] < Scale) =>
                  codec.bytes[2 * i - 1] + 256 * codec.bytes[2 * i]
                      = codec.samples[i] % 65536

\* a block of samples of value 0.5 has been encoded: every pair of bytes
\* is the little-endian 16384
C20_Witness ==
    /\ codec.stage = "blob"
    /\ codec.samples = [i \in 1..MaxBlock |-> Scale \div 2]
    /\ \A i \in 1..MaxBlock : BytesOf(i) = <<0, 64>>

\* C21: a start whose getUserMedia rejects fails visibly: the connection
\* state becomes ERROR with an error message, and for that start no
\* session is opened, no stream is held, no tap is installed and no frame
\* is ever produced.
C21_DeviceFailureVisible ==
    [][\A s \in Sessions :
          /\ (sess[s].st = "acquiring" /\ sess'[s].st = "failed" =>
                 /\ connectionState' = "ERROR"
                 /\ errorMsg'
                 /\ UNCHANGED <<tap, processorRef, audioStreamRef, micLive,
                                outbox>>)
          /\ (sess[s].st = "failed" =>
                 /\ sess'[s].st = "failed"
                 /\ s \notin tap'
                 /\ s \notin micLive'
                 /\ audioStreamRef' # s
                 /\ (lastOp' = "capture" => lastTick'.tick # s))]_vars

\* the microphone has just been refused to the second start, after a first
\* conversation that captured frames
C21_Witness ==
    /\ sess[1].st = "open"
    /\ sess[2].st = "failed"
    /\ lastTick.tick = 1
    /\ connectionState = "ERROR"
    /\ errorMsg
    /\ tap = {}

\* C22: playback preserves arrival order: of two chunks scheduled with no
\* stopAllAudio in between, the one delivered first ends at or before the
\* start of the other.  (Sources are numbered in the order of their
\* creation; a source that was live at a stopAllAudio is stopped.)
C22_ArrivalOrder ==
    \A u \in DOMAIN srcs : \A v \in DOMAIN srcs :
        (/\ u < v
         /\ srcs[u].kind = "speech"
         /\ srcs[v].kind = "speech"
         /\ ~srcs[u].stopped) => End(u) <= srcs[v].start

\* two chunks with the cue of a turn in between, all still scheduled
C22_Witness ==
    /\ Len(srcs) = 3
    /\ srcs[1].kind = "speech" /\ srcs[2].kind = "cue"
    /\ srcs[3].kind = "speech"
    /\ \A u \in 1..3 : ~srcs[u].stopped
    /\ scheduledSourcesRef = {1, 3}
    /\ srcs[3].start = End(2)
    /\ now < End(1)

\* C23 as stated: stopAllAudio called with an empty live set leaves the
\* live set and the cursor unchanged.
C23_CancelEmptyNoOp ==
    [][(lastOp' \in Cancels /\ scheduledSourcesRef = {}) =>
          UNCHANGED <<scheduledSourcesRef, nextStartTimeRef>>]_vars

\* C23 amended: stopAllAudio called with an empty live set stops no source
\* and leaves the set empty; it sets the cursor to deviceNow, like every
\* stopAllAudio, which changes the cursor unless it was at deviceNow.
C23_CancelEmptyResetsCursor ==
    [][(lastOp' \in Cancels /\ scheduledSourcesRef = {}) =>
          /\ UNCHANGED <<scheduledSourcesRef, srcs>>
          /\ nextStartTimeRef' = now]_vars

\* an interruption has arrived when nothing was live and the cursor lay
\* behind the device clock
C23_Witness ==
    /\ lastOp = "cancel"
    /\ cancelNow = now
    /\ nextStartTimeRef = now
    /\ \E u \in DOMAIN srcs : srcs[u] = Gone
    /\ \A u \in DOMAIN srcs : srcs[u].kind # "speech"

\* C24: the live set is changed only by playAudioChunk inserting the new
\* source, by stopAllAudio emptying it, and by a completion callback
\* removing its own, finished source; no stopped source is ever in the set.
C24_LiveSetMutation ==
    [][/\ (scheduledSourcesRef' # scheduledSourcesRef =>
              \/ /\ lastOp' = "schedule"
                 /\ scheduledSourcesRef'
                       = scheduledSourcesRef \cup {Len(srcs')}
              \/ /\ lastOp' \in Cancels
                 /\ scheduledSourcesRef' = {}
              \/ \E u \in scheduledSourcesRef :
                    /\ lastOp' = "other"
                    /\ Finished(u)
                    /\ srcs'[u] = Gone
                    /\ scheduledSourcesRef' = scheduledSourcesRef \ {u})
       /\ \A u \in scheduledSourcesRef' : ~srcs'[u].stopped]_vars

\* the callback of a source stopped by an interruption has run after a new
\* source was scheduled (at device time 0 nothing ends by itself), and the
\* new source is still in the set
C24_Witness ==
    /\ lastOp = "other"
    /\ now = 0
    /\ Len(srcs) = 2
    /\ srcs[1] = Gone
    /\ srcs[2].kind = "speech"
    /\ scheduledSourcesRef = {2}

\* C25: after chunks scheduled back to back, none of them submitted after the
\* device clock had passed the cursor and with no cue or stopAllAudio in
\* between, the cursor is the start of the first plus the durations of all
\* (their frames at 24 kHz); two chunks of 2400 frames move it by 0.2 s.
C25_BackToBackSum ==
    run # NoRun =>
        /\ nextStartTimeRef =
               run.start + (run.frames * TicksPerSecond) \div AUDIO_OUTPUT_SAMPLE_RATE
        /\ (run.n = 2 /\ run.frames = 2 * 2400 =>
               nextStartTimeRef - run.start = TicksPerSecond \div 5)

\* two chunks of 2400 frames have been scheduled back to back, the second
\* after the first had started and before the clock passed its end
C25_Witness ==
    /\ lastOp = "schedule"
    /\ run.n = 2
    /\ run.frames = 2 * 2400
    /\ run.start < now
    /\ now < prevEnd

\* C26: decodeAudioData of a non-empty input gives byteLength / 2 / channels
\* frames per channel, frame i of channel c being the 16-bit sample at index
\* i * channels + c divided by 32768, and throws for every input whose
\* byte length is not a multiple of 2 * channels.
C26_DecodeOrReject ==
    (codec.stage = "buffer" /\ Len(codec.bytes) > 0) =>
        IF Len(codec.bytes) % (2 * codec.numChannels) # 0
        THEN codec.buffer.thrown
        ELSE /\ ~codec.buffer.thrown
             /\ Len(codec.buffer.v) = codec.numChannels
             /\ \A c \in 1..codec.numChannels :
                    /\ Len(codec.buffer.v[c]) =
                           (Len(codec.bytes) \div 2) \div codec.numChannels
                    /\ \A i \in 1..Len(codec.buffer.v[c]) :
                           codec.buffer.v[c][i] =
                               Int16At(codec.bytes,
                                       (i - 1) * codec.numChannels + c)

\* C27: the frames reach the transport of a session in capture order: the
\* frames handed to sendRealtimeInput are in the order of their ticks, and
\* so are the frames still waiting for the session promise, which all come
\* after the frames already sent.
C27_CaptureOrder ==
    \A s \in Sessions :
        LET order == sess[s].sent \o sess[s].thens IN
        \A i \in DOMAIN order : \A j \in DOMAIN order :
            i < j => order[i] < order[j]

\* two frames captured while the session promise was pending have been sent
\* when it was fulfilled
C27_Witness ==
    /\ lastOp = "settle"
    /\ \E s \in Sessions :
           /\ sess[s].promise = "fulfilled"
           /\ Len(sess[s].sent) = 2
           /\ sess[s].thens = <<>>

\* C28: every source of the live set ends at or before the cursor.
C28_LiveEndsBeforeCursor ==
    \A u \in scheduledSourcesRef : End(u) <= nextStartTimeRef

\* two sources are in the live set, the later one ending at the cursor
C28_Witness ==
    /\ \E u \in scheduledSourcesRef : End(u) < nextStartTimeRef
    /\ \E v \in scheduledSourcesRef :
           End(v) = nextStartTimeRef /\ now < srcs[v].start

\* C29: from a handleDisconnect until the next session is opened (the output
\* context stays suspended for that long) the live set is empty and the
\* cursor does not change, whatever the session that was hung up delivers.
C29_DisconnectEndsPlayback ==
    [][(suspended /\ suspended') =>
          /\ scheduledSourcesRef' = {}
          /\ nextStartTimeRef' = nextStartTimeRef]_vars

\* C30: once a new session has been started, a close or error event of a
\* session that was opened before it and has been disconnected (the refs no
\* longer hold its stream and processor) leaves the capture tap, the
\* microphone stream, the connection state, the live set and the cursor as
\* they were, and a message of such a session neither schedules nor cancels
\* audio.
Superseded(s) ==
    /\ sess[s].st = "open"
    /\ audioStreamRef # s
    /\ processorRef # s
    /\ s < NextSession - 1
    /\ sess[NextSession - 1].st \in {"acquiring", "connecting", "open"}

OnlyOpen(s) ==
    /\ sess[s].st = "open"
    /\ \A t \in Sessions : sess[t].st = "open" => t = s

C30_SessionsIsolated ==
    [][\A s \in Sessions :
          Superseded(s) =>
              /\ (sess'[s].st # sess[s].st
                   /\ sess'[s].st \in {"closed", "errored"} =>
                      UNCHANGED <<tap, processorRef, audioStreamRef, micLive,
                                  connectionState, scheduledSourcesRef,
                                  nextStartTimeRef>>)
              /\ (OnlyOpen(s) /\ lastOp' \in {"schedule", "cue", "cancel"} =>
                      UNCHANGED <<scheduledSourcesRef, nextStartTimeRef>>)]_vars

\* C31: while the connection state is DISCONNECTED or ERROR no microphone
\* stream is held or live and no capture tap is connected.
C31_MicOnlyInSession ==
    connectionState \in {"DISCONNECTED", "ERROR"} =>
        /\ audioStreamRef = 0
        /\ micLive = {}
        /\ processorRef = 0
        /\ tap = {}

\* C32: every source placed in the live set is eventually removed from it,
\* given a device that reports the end of every source it plays.
C32_LiveSetDrains ==
    \A u \in 1..MaxUnits :
        (u \in scheduledSourcesRef) ~> (u \notin scheduledSourcesRef)

\* C33: the camera flag and the screen share flag are never both set, at
\* most one frame-sampling interval is running, and while either flag is set
\* the stream held by videoStreamRef is running.
C33_VideoConsistent ==
    /\ ~(video.isCameraOn /\ video.isScreenShareOn)
    /\ Cardinality(video.intervals) <= 1
    /\ (video.isCameraOn \/ video.isScreenShareOn =>
           /\ video.videoStreamRef # 0
           /\ video.videoStreamRef \in video.live)

\* C34: when the connected session ends, by the user (the hang-up button or
\* "New Live Session") or by its close or error event, one record with its duration is added to the
\* history if it lasted 5 seconds or more and none if it was shorter, and
\* no other step changes the history.
Connected(s) ==
    /\ connectionState = "CONNECTED"
    /\ processorRef = s
    /\ sess[s].st = "open"

EndsRemotely(s) == Connected(s) /\ sess'[s].st \in {"closed", "errored"}

HangsUp(s) ==
    /\ Connected(s)
    /\ lastOp' \in Disconnects
    /\ \A t \in Sessions : sess[t].st # "none" => sess'[t].st = sess[t].st

C34_RecordedOnce ==
    [][/\ \A s \in Sessions :
             (EndsRemotely(s) \/ HangsUp(s)) =>
                 hist'.sessions =
                     IF hist.wall - sess[s].openedAt >= 5
                     THEN <<[timestamp |-> hist.wall,
                             durationSeconds |->
                                 hist.wall - sess[s].openedAt]>>
                          \o hist.sessions
                     ELSE hist.sessions
       /\ ((\A s \in Sessions : ~EndsRemotely(s) /\ ~HangsUp(s)) =>
              hist'.sessions = hist.sessions)]_vars

====